---- MODULE Spec2Model ----
(***************************************************************************)
(* Model of fpl_player_model.py: the greedy squad builder                  *)
(* (build_sample_squad), the player model builder (build_player_model) and *)
(* the team model builder (build_team_model, also fpl_team_model.py).      *)
(*                                                                         *)
(* A DataFrame is a sequence of rows (records); its positional index after *)
(* reset_index(drop=True) is the sequence index.  Costs and scores are     *)
(* integers; a missing value (NaN) is the marker NaN, and every comparison *)
(* with it is false, as in IEEE arithmetic.                                *)
(***************************************************************************)
EXTENDS Integers, Sequences, FiniteSets, TLC

VARIABLES
    candidates,   \* build_sample_squad: the candidate pool passed in
    budget,       \* build_sample_squad: the budget passed in
    formation,    \* build_sample_squad: the quota mapping, in dict order
    pos_sorted,   \* outcome of sort_values(by="Tuned_Score") per position
    pc,           \* position in main / build_sample_squad
    squad_df,     \* the local squad_df
    extras,       \* the local extras (position -> sorted pool)
    total_cost,   \* the local total_cost
    attempts,     \* the local attempts
    result,       \* the value build_sample_squad returned
    message,      \* what main printed about the squad
    subs,         \* history: substitutions made by the current call
    calls,        \* history: number of calls started
    prev,         \* history: result and substitutions of the previous call
    top50,        \* build_player_model: the season summary table
    merged_gws,   \* build_player_model: the per-gameweek records
    team_model,   \* build_player_model: the team index table
    recent_form,  \* build_player_model: the local recent_form
    pm,           \* build_player_model: the local pm (returned at the end)
    script,       \* team model: the file that runs it
    top50_columns,\* team model: the columns of top50 that the code tests for
    team_stats,   \* team model: the local team_stats
    upcoming_map  \* team model: the local upcoming_map (team -> opponents)

pmVars == <<top50, merged_gws, team_model, recent_form, pm>>

squadVars == <<candidates, budget, formation, pos_sorted, squad_df, extras,
               total_cost, attempts, result, message, subs, calls, prev>>

tmVars == <<script, top50_columns, team_stats, upcoming_map>>

vars == <<pc, squadVars, pmVars, tmVars>>

----------------------------------------------------------------------------
(* Bounds of the model *)
MaxPool == 3
MaxCost == 2
MaxScore == 2
MaxQuota == 2
MaxBudget == 4
MaxCalls == 2
MaxPlayers == 2
MaxRecords == 3
MaxPoints == 1
MaxForm == 1
MaxGW == 7
MaxRows == 2
MaxGoals == 1

(* Program constants *)
BUDGET == 100
MissingCostSentinel == 999
MaxAttempts == 200
RECENT_N == 5

NaN == -1
SQUAD_RULES == << [pos |-> "GKP", count |-> 2], [pos |-> "DEF", count |-> 5],
                  [pos |-> "MID", count |-> 5], [pos |-> "FWD", count |-> 3] >>

EmptyFrame == << >>

----------------------------------------------------------------------------
(* Helpers on frames *)

isna(v) == v = NaN

(* a missing value of a text column *)
NoTeam == "N/A"

RECURSIVE SumCost(_)
SumCost(df) == IF df = << >> THEN 0 ELSE Head(df).Cost + SumCost(Tail(df))

Names(df) == { df[i].Web_name : i \in 1..Len(df) }

FilterPosition(df, pos) == SelectSeq(df, LAMBDA r : r.Position = pos)

head(df, n) == SubSeq(df, 1, IF Len(df) < n THEN Len(df) ELSE n)

RECURSIVE concat(_)
concat(frames) == IF frames = << >> THEN << >>
                  ELSE Head(frames) \o concat(Tail(frames))

fillna(df, v) ==
    [i \in 1..Len(df) |-> IF isna(df[i].Cost) THEN [df[i] EXCEPT !.Cost = v] ELSE df[i]]

FormationKeys(f) == { f[i].pos : i \in 1..Len(f) }

(* sort_values(by="Tuned_Score", ascending=False): the default kind is     *)
(* quicksort, which is not stable, so rows of equal score may come out in  *)
(* any order; every outcome is a permutation in non-increasing score.      *)
RECURSIVE SortOutcomes(_)
SortOutcomes(rows) ==
    IF rows = {} THEN { << >> }
    ELSE LET top == { r \in rows : \A q \in rows : q.Tuned_Score <= r.Tuned_Score }
         IN  UNION { { <<r>> \o t : t \in SortOutcomes(rows \ {r}) } : r \in top }

Rows(df) == { df[i] : i \in 1..Len(df) }

(* squad_df.sort_values(by=["Cost","Tuned_Score"], ascending=[False,True]): *)
(* a lexsort, which is stable.                                              *)
RepairBefore(a, b) ==
    \/ a.Cost > b.Cost
    \/ a.Cost = b.Cost /\ a.Tuned_Score < b.Tuned_Score

(* the row that comes first: least in the order, the earliest of equals *)
RepairFirst(df) ==
    CHOOSE i \in 1..Len(df) :
        \A j \in 1..Len(df) :
            j # i => \/ RepairBefore(df[i], df[j])
                     \/ ~RepairBefore(df[j], df[i]) /\ i < j

RemoveAt(df, i) == SubSeq(df, 1, i - 1) \o SubSeq(df, i + 1, Len(df))

RECURSIVE RepairOrder(_)
RepairOrder(df) ==
    IF df = << >> THEN << >>
    ELSE LET i == RepairFirst(df)
         IN  <<df[i]>> \o RepairOrder(RemoveAt(df, i))

----------------------------------------------------------------------------
(* build_sample_squad *)

Positions == { SQUAD_RULES[i].pos : i \in 1..Len(SQUAD_RULES) }

(* One sort outcome per position pool: candidates[Position == pos]         *)
(* .sort_values(by="Tuned_Score", ascending=False).reset_index(drop=True)  *)
RECURSIVE PoolOrders(_, _)
PoolOrders(df, ps) ==
    IF ps = {} THEN { << >> }
    ELSE LET p == CHOOSE x \in ps : TRUE
         IN  { (p :> a) @@ g : a \in SortOutcomes(Rows(FilterPosition(df, p))),
                               g \in PoolOrders(df, ps \ {p}) }

InitialSelections(f, ps) == [i \in 1..Len(f) |-> head(ps[f[i].pos], f[i].count)]

InitialSquad(f, ps) == fillna(concat(InitialSelections(f, ps)), MissingCostSentinel)

CostLt_raw(a, b) == a < b

CostLt_le(a, b) == ~isna(a) /\ ~isna(b) /\ a <= b

CostLt(a, b) == ~isna(a) /\ ~isna(b) /\ a < b

Unselected_any(sq, cand) == TRUE

Unselected(sq, cand) == cand.Web_name \notin Names(sq)

(* positions k of the pool of row idx holding a candidate that is not in   *)
(* the squad and strictly cheaper than the row                             *)
Cheaper(sq, ex, idx) ==
    LET pool == ex[sq[idx].Position]
    IN  { k \in 1..Len(pool) : Unselected(sq, pool[k]) /\ CostLt(pool[k].Cost, sq[idx].Cost) }

SwapRows_firstonly(sq, ex) == { idx \in {1} \cap (1..Len(sq)) : Cheaper(sq, ex, idx) # {} }

SwapRows(sq, ex) == { idx \in 1..Len(sq) : Cheaper(sq, ex, idx) # {} }

Min(S) == CHOOSE x \in S : \A y \in S : x <= y

Max(S) == CHOOSE x \in S : \A y \in S : x >= y

SwapRow(sq, ex) == Min(SwapRows(sq, ex))

SwapCand_last(sq, ex) ==
    CHOOSE cand \in { ex[sq[idx].Position][Max(Cheaper(sq, ex, idx))] :
                        idx \in {SwapRow(sq, ex)} } : TRUE

SwapCand(sq, ex) ==
    CHOOSE cand \in { ex[sq[idx].Position][Min(Cheaper(sq, ex, idx))] :
                        idx \in {SwapRow(sq, ex)} } : TRUE

LoopCondition_nocap(total, n, b) == total > b

LoopCondition_ge(total, n, b) == total >= b /\ n < MaxAttempts

LoopCondition(total, n, b) == total > b /\ n < MaxAttempts

ReturnValue_unchecked(sq, b) == sq

ReturnValue(sq, b) == IF SumCost(sq) > b THEN EmptyFrame ELSE sq

(* SelectInitial with the missing costs filled in the caller's frame *)
SelectInitial_inplace ==
    /\ pc = "idle"
    /\ formation # << >>
    /\ candidates' = fillna(candidates, MissingCostSentinel)
    /\ squad_df' = InitialSquad(formation, pos_sorted)
    /\ total_cost' = SumCost(squad_df')
    /\ extras' = [p \in FormationKeys(formation) |-> pos_sorted[p]]
    /\ attempts' = 0
    /\ subs' = << >>
    /\ calls' = calls + 1
    /\ pc' = "loop"
    /\ UNCHANGED <<budget, formation, pos_sorted, result, message, prev>>
    /\ UNCHANGED <<pmVars, tmVars>>

(* SelectInitial with a sort whose tie order changes from call to call *)
SelectInitial_anyorder ==
    /\ pc = "idle"
    /\ formation # << >>
    /\ \E ps \in PoolOrders(candidates, Positions) :
          /\ squad_df' = InitialSquad(formation, ps)
          /\ extras' = [p \in FormationKeys(formation) |-> ps[p]]
    /\ total_cost' = SumCost(squad_df')
    /\ attempts' = 0
    /\ subs' = << >>
    /\ calls' = calls + 1
    /\ pc' = "loop"
    /\ UNCHANGED <<candidates, budget, formation, pos_sorted, result, message, prev>>
    /\ UNCHANGED <<pmVars, tmVars>>

SelectInitial ==
    /\ pc = "idle"
    /\ formation # << >>
    /\ squad_df' = InitialSquad(formation, pos_sorted)
    /\ total_cost' = SumCost(squad_df')
    /\ extras' = [p \in FormationKeys(formation) |-> pos_sorted[p]]
    /\ attempts' = 0
    /\ subs' = << >>
    /\ calls' = calls + 1
    /\ pc' = "loop"
    /\ UNCHANGED <<candidates, budget, formation, pos_sorted, result, message, prev>>
    /\ UNCHANGED <<pmVars, tmVars>>

NoFormation ==
    /\ pc = "idle"
    /\ formation = << >>
    /\ result' = EmptyFrame
    /\ subs' = << >>
    /\ calls' = calls + 1
    /\ pc' = "returned"
    /\ UNCHANGED <<candidates, budget, formation, pos_sorted, squad_df, extras,
                   total_cost, attempts, message, prev>>
    /\ UNCHANGED <<pmVars, tmVars>>

RepairAttempt ==
    /\ pc = "loop"
    /\ LoopCondition(total_cost, attempts, budget)
    /\ \E sorted \in {RepairOrder(squad_df)} :
           /\ SwapRows(sorted, extras) # {}
           /\ \E idx \in {SwapRow(sorted, extras)}, cand \in {SwapCand(sorted, extras)} :
                  /\ squad_df' = [sorted EXCEPT ![idx] = cand]
                  /\ subs' = Append(subs, <<sorted[idx].Web_name, cand.Web_name>>)
    /\ total_cost' = SumCost(squad_df')
    /\ attempts' = attempts + 1
    /\ UNCHANGED <<candidates, budget, formation, pos_sorted, pc, extras, result,
                   message, calls, prev>>
    /\ UNCHANGED <<pmVars, tmVars>>

RepairStop ==
    /\ pc = "loop"
    /\ LoopCondition(total_cost, attempts, budget)
    /\ LET sorted == RepairOrder(squad_df)
       IN  /\ SwapRows(sorted, extras) = {}
           /\ squad_df' = sorted
    /\ pc' = "final"
    /\ UNCHANGED <<candidates, budget, formation, pos_sorted, extras, total_cost,
                   attempts, result, message, subs, calls, prev>>
    /\ UNCHANGED <<pmVars, tmVars>>

FinalCheck ==
    /\ \/ pc = "final"
       \/ pc = "loop" /\ ~LoopCondition(total_cost, attempts, budget)
    /\ result' = ReturnValue(squad_df, budget)
    /\ pc' = "returned"
    /\ UNCHANGED <<candidates, budget, formation, pos_sorted, squad_df, extras,
                   total_cost, attempts, message, subs, calls, prev>>
    /\ UNCHANGED <<pmVars, tmVars>>

(* main: the caller's branch on squad.empty *)
Main ==
    /\ pc = "returned"
    /\ message' = IF result = EmptyFrame THEN "could_not_build_under_budget"
                  ELSE "saved_squad_sample"
    /\ pc' = "done"
    /\ UNCHANGED <<candidates, budget, formation, pos_sorted, squad_df, extras,
                   total_cost, attempts, result, subs, calls, prev>>
    /\ UNCHANGED <<pmVars, tmVars>>

(* the caller runs the selector again on the same inputs *)
Rerun ==
    /\ pc = "done"
    /\ calls < MaxCalls
    /\ prev' = [result |-> result, subs |-> subs]
    /\ pc' = "idle"
    /\ squad_df' = << >>
    /\ extras' = << >>
    /\ total_cost' = 0
    /\ attempts' = 0
    /\ result' = EmptyFrame
    /\ message' = "none"
    /\ subs' = << >>
    /\ UNCHANGED <<candidates, budget, formation, pos_sorted, calls>>
    /\ UNCHANGED <<pmVars, tmVars>>

----------------------------------------------------------------------------
(* Inputs *)

PoolPositions == {"GKP", "DEF"}

PoolRows == [Position : PoolPositions, Cost : {NaN} \cup 1..MaxCost, Tuned_Score : 1..MaxScore]

(* candidate pools with distinct entity names: row i is named i *)
PoolsOfLen(n) ==
    { [i \in 1..n |-> [Web_name |-> i, Position |-> f[i].Position, Cost |-> f[i].Cost,
                       Tuned_Score |-> f[i].Tuned_Score]] : f \in [1..n -> PoolRows] }

Pools == UNION { PoolsOfLen(n) : n \in 0..MaxPool }

Formations ==
    { << >> } \cup
    { << [pos |-> "GKP", count |-> a], [pos |-> "DEF", count |-> b] >> :
        a \in 1..MaxQuota, b \in 1..MaxQuota }

Budgets == 2..MaxBudget

Locals ==
    /\ squad_df = << >>
    /\ extras = << >>
    /\ total_cost = 0
    /\ attempts = 0
    /\ result = EmptyFrame
    /\ message = "none"
    /\ subs = << >>
    /\ calls = 0
    /\ prev = [result |-> EmptyFrame, subs |-> << >>]

NoTeamLocals ==
    /\ script = "fpl_player_model.py"
    /\ team_stats = << >>
    /\ upcoming_map = << >>

NoTeamModel ==
    /\ NoTeamLocals
    /\ top50_columns = {}

NoPlayerModel ==
    /\ top50 = << >>
    /\ merged_gws = << >>
    /\ team_model = << >>
    /\ recent_form = << >>
    /\ pm = << >>

Init ==
    /\ candidates \in Pools
    /\ budget \in Budgets
    /\ formation \in Formations
    /\ pos_sorted \in PoolOrders(candidates, Positions)
    /\ pc = "idle"
    /\ Locals
    /\ NoPlayerModel
    /\ NoTeamModel

Next ==
    \/ SelectInitial
    \/ NoFormation
    \/ RepairAttempt
    \/ RepairStop
    \/ FinalCheck
    \/ Main
    \/ Rerun

Spec == Init /\ [][Next]_vars

----------------------------------------------------------------------------
(* The budgeted scenario: budget 100.0, quotas 2/5/5/3, and a pool whose   *)
(* top-scoring 15-by-quota selection totals 105.0                          *)

MaxExtras == 2

ScenarioPosition(i) ==
    IF i <= 2 THEN "GKP" ELSE IF i <= 7 THEN "DEF" ELSE IF i <= 12 THEN "MID" ELSE "FWD"

(* two cost patterns of the 15 top scorers, each totalling 105 *)
ScenarioCost(i, pattern) ==
    IF pattern = 1 THEN 7
    ELSE IF i <= 2 THEN 4 ELSE IF i <= 12 THEN 7 ELSE 9

ScenarioBase(pattern) ==
    [i \in 1..15 |-> [Web_name |-> i, Position |-> ScenarioPosition(i),
                      Cost |-> ScenarioCost(i, pattern), Tuned_Score |-> 100 - i]]

ScenarioExtraRows == [Position : Positions, Cost : {NaN, 2, 6, 7, 8}]

ScenarioExtras(n) ==
    { [j \in 1..n |-> [Web_name |-> 15 + j, Position |-> f[j].Position, Cost |-> f[j].Cost,
                       Tuned_Score |-> MaxExtras + 1 - j]] : f \in [1..n -> ScenarioExtraRows] }

ScenarioPools ==
    { ScenarioBase(pattern) \o e : pattern \in 1..2,
                                   e \in UNION { ScenarioExtras(n) : n \in 0..MaxExtras } }

ScenarioInit ==
    /\ candidates \in ScenarioPools
    /\ budget = BUDGET
    /\ formation = SQUAD_RULES
    /\ pos_sorted \in PoolOrders(candidates, Positions)
    /\ pc = "idle"
    /\ Locals
    /\ NoPlayerModel
    /\ NoTeamModel

ScenarioNext ==
    \/ SelectInitial
    \/ RepairAttempt
    \/ RepairStop
    \/ FinalCheck
    \/ Main

SpecScenario == ScenarioInit /\ [][ScenarioNext]_vars

----------------------------------------------------------------------------
(* Properties of build_sample_squad *)

Returned == pc \in {"returned", "done"}

MissingCost(name) ==
    \E i \in 1..Len(candidates) : candidates[i].Web_name = name /\ isna(candidates[i].Cost)

SwappedOut == { subs[k][1] : k \in 1..Len(subs) }

SwappedIn == { subs[k][2] : k \in 1..Len(subs) }

PoolSize(p) == Len(FilterPosition(candidates, p))

InsufficientCandidates ==
    \E i \in 1..Len(formation) : PoolSize(formation[i].pos) < formation[i].count

Initial == InitialSquad(formation, pos_sorted)

(* some member of the initial selection has an unselected candidate of its *)
(* own position class that is strictly cheaper                             *)
CheaperAlternativeExists ==
    \E i \in 1..Len(Initial), j \in 1..Len(candidates) :
        /\ candidates[j].Position = Initial[i].Position
        /\ candidates[j].Web_name \notin Names(Initial)
        /\ ~isna(candidates[j].Cost)
        /\ candidates[j].Cost < Initial[i].Cost

(* C1: a non-empty squad returned by build_sample_squad costs at most the  *)
(* budget (missing costs counted as the sentinel 999), and when the squad  *)
(* still costs more than the budget after the repair loop the empty        *)
(* (infeasible) result is returned.                                        *)
C1_CostWithinBudget ==
    Returned =>
        /\ result # EmptyFrame => SumCost(result) <= budget
        /\ SumCost(squad_df) > budget => result = EmptyFrame

C1_Witness ==
    /\ pc = "returned"
    /\ attempts >= 1
    /\ result # EmptyFrame
    /\ SumCost(result) = budget

(* C2: every returned squad holds exactly quota[p] members of each         *)
(* position class p, and a pool with fewer candidates than a quota yields  *)
(* the infeasible result, never a short squad.                             *)
C2_QuotaExact ==
    Returned =>
        /\ result # EmptyFrame =>
             \A i \in 1..Len(formation) :
                 Len(FilterPosition(result, formation[i].pos)) = formation[i].count
        /\ InsufficientCandidates => result = EmptyFrame

(* C3: with distinct entity names in the pool, no entity is twice in the   *)
(* squad: not after the initial selection, not after any substitution, not *)
(* in the returned squad.                                                  *)
C3_NoDuplicateEntity ==
    /\ Cardinality(Names(squad_df)) = Len(squad_df)
    /\ Cardinality(Names(result)) = Len(result)

C3_Witness ==
    /\ pc = "returned"
    /\ attempts >= 1
    /\ Len(result) >= 2

(* C4: when a position class has fewer candidates than its quota, the      *)
(* caller is told so: what it reports is neither a saved squad nor the     *)
(* report it gives when the budget is unreachable.                         *)
C4_CauseDistinguished ==
    pc = "done" /\ InsufficientCandidates =>
        message \notin {"saved_squad_sample", "could_not_build_under_budget"}

C6_PoolUnchanged == [][candidates' = candidates]_vars

C6_Witness ==
    /\ pc = "done"
    /\ attempts >= 1
    /\ \E n \in SwappedOut : MissingCost(n)

(* C7: when the initial selection (per position class, the quota[p] top    *)
(* scorers) costs at most the budget, no substitution is made and the      *)
(* initial selection is returned.                                          *)
C7_WithinBudgetIsFinal ==
    Returned /\ SumCost(Initial) <= budget =>
        /\ attempts = 0
        /\ subs = << >>
        /\ result = Initial
        /\ \A i \in 1..Len(result), j \in 1..Len(candidates) :
              candidates[j].Position = result[i].Position
                  /\ candidates[j].Web_name \notin Names(result)
              => candidates[j].Tuned_Score <= result[i].Tuned_Score

C7_Witness ==
    /\ pc = "returned"
    /\ SumCost(Initial) = budget
    /\ Len(result) >= 2
    /\ CheaperAlternativeExists

(* C8 (as stated): in the scenario the selector substitutes at least one   *)
(* member and ends with a squad of at most 100.0 or the empty result.      *)
C8_AlwaysSubstitutes ==
    Returned =>
        /\ attempts >= 1
        /\ result = EmptyFrame \/ SumCost(result) <= BUDGET

(* C8 (amended): in the scenario the repair loop is entered; it            *)
(* substitutes at least one member exactly when some member of the initial *)
(* selection has a strictly cheaper unselected candidate of its position   *)
(* class; it ends with a squad of at most 100.0, or with the empty result  *)
(* once no substitution is possible or the 200 attempts are used up.       *)
C8_SubstitutesWhenPossible ==
    Returned =>
        /\ SumCost(Initial) = 105
        /\ attempts >= 1 <=> CheaperAlternativeExists
        /\ result = EmptyFrame \/ SumCost(result) <= BUDGET
        /\ result = EmptyFrame =>
              \/ SwapRows(RepairOrder(squad_df), extras) = {}
              \/ attempts >= MaxAttempts

C8_Witness ==
    /\ pc = "returned"
    /\ attempts >= 2
    /\ result # EmptyFrame
    /\ SumCost(result) <= BUDGET

(* C9: a selected entity with a missing cost is costed at 999, no entity   *)
(* with a missing cost is substituted into the squad, and with a budget    *)
(* below 999 no returned squad holds an entity with a missing cost.        *)
C9_MissingCostNeverKept ==
    /\ \A i \in 1..Len(squad_df) :
          /\ ~isna(squad_df[i].Cost)
          /\ MissingCost(squad_df[i].Web_name) => squad_df[i].Cost = MissingCostSentinel
    /\ \A n \in SwappedIn : ~MissingCost(n)
    /\ Returned /\ budget < MissingCostSentinel =>
          \A i \in 1..Len(result) : ~MissingCost(result[i].Web_name)

C9_Witness ==
    /\ pc = "returned"
    /\ result # EmptyFrame
    /\ \E n \in SwappedOut : MissingCost(n)
    /\ \E i \in 1..Len(candidates) :
          isna(candidates[i].Cost) /\ candidates[i].Web_name \notin SwappedOut

----------------------------------------------------------------------------
(* Numbers of the models: exact rationals n/d with d > 0; a missing value  *)
(* (NaN) is 0/0 and the infinities of float division by zero are 1/0 and   *)
(* -1/0. pd.notnull is false on NaN only.                                  *)

R(n, d) == [n |-> n, d |-> d]

NaNR == R(0, 0)

Zero == R(0, 1)

Inf == R(1, 0)

notnull(x) == x # NaNR

isinf(x) == x.d = 0 /\ x.n # 0

Abs(k) == IF k < 0 THEN -k ELSE k

Sgn(k) == IF k > 0 THEN 1 ELSE IF k < 0 THEN -1 ELSE 0

RECURSIVE GCD(_, _)
GCD(a, b) == IF b = 0 THEN a ELSE GCD(b, a % b)

Norm(x) ==
    IF x.d = 0 THEN R(Sgn(x.n), 0)
    ELSE LET g == GCD(Abs(x.n), Abs(x.d))
             sgn == IF x.d < 0 THEN -1 ELSE 1
         IN  R((sgn * x.n) \div g, (sgn * x.d) \div g)

FromInt(v) == IF isna(v) THEN NaNR ELSE R(v, 1)

RAdd(a, b) ==
    IF ~(notnull(a) /\ notnull(b)) THEN NaNR
    ELSE IF isinf(a) /\ isinf(b) THEN (IF a = b THEN a ELSE NaNR)
    ELSE Norm(R(a.n * b.d + b.n * a.d, a.d * b.d))

RSub(a, b) == RAdd(a, R(-b.n, b.d))

RMul(a, b) ==
    IF notnull(a) /\ notnull(b) THEN Norm(R(a.n * b.n, a.d * b.d)) ELSE NaNR

Recip(b) ==
    IF b.d = 0 THEN Zero
    ELSE IF b.n = 0 THEN Inf
    ELSE Norm(R(b.d, b.n))

RDiv(a, b) ==
    IF notnull(a) /\ notnull(b) THEN RMul(a, Recip(b)) ELSE NaNR

RLt(a, b) ==
    /\ notnull(a)
    /\ notnull(b)
    /\ IF a.d = 0 /\ b.d = 0 THEN a.n < b.n ELSE a.n * b.d < b.n * a.d

Range(f) == { f[i] : i \in DOMAIN f }

Defined(S) == { x \in S : notnull(x) }

(* Series.max() and Series.min() skip NaN; NaN when nothing is left *)
RMax(S) == IF Defined(S) = {} THEN NaNR
           ELSE CHOOSE x \in Defined(S) : \A y \in Defined(S) : ~RLt(x, y)

RMin(S) == IF Defined(S) = {} THEN NaNR
           ELSE CHOOSE x \in Defined(S) : \A y \in Defined(S) : ~RLt(y, x)

safe_div_unguarded(a, b) == RDiv(a, b)

safe_div(a, b) == IF notnull(a) /\ notnull(b) /\ b.n # 0 THEN RDiv(a, b) ELSE NaNR

----------------------------------------------------------------------------
(* build_player_model *)

RECURSIVE SumPoints(_)
SumPoints(df) == IF df = << >> THEN 0 ELSE Head(df).GW_Points + SumPoints(Tail(df))

RECURSIVE SortedKeys(_)
SortedKeys(S) ==
    IF S = {} THEN << >>
    ELSE LET k == Min(S) IN <<k>> \o SortedKeys(S \ {k})

GWMax(gws) == CHOOSE g \in { gws[i].GW : i \in 1..Len(gws) } :
                  \A i \in 1..Len(gws) : gws[i].GW <= g

(* merged_gws[merged_gws["GW"] >= merged_gws["GW"].max() - (recent_n - 1)] *)
Recent(gws, n) ==
    IF gws = << >> THEN << >>
    ELSE SelectSeq(gws, LAMBDA r : r.GW >= GWMax(gws) - (n - 1))

OfName(df, name) == SelectSeq(df, LAMBDA r : r.Web_name = name)

(* recent.groupby("Web name").agg({"GW Points": "mean"}).reset_index():    *)
(* one row per name of recent, in key order.  The other recent aggregates  *)
(* (xGI, xGC, Minutes, Starts) are renamed and carried along the same way  *)
(* and read by no later step.                                              *)
GroupMean(recent) ==
    LET keys == SortedKeys(Names(recent))
    IN  [k \in 1..Len(keys) |->
            [Web_name |-> keys[k],
             Recent_Points |-> Norm(R(SumPoints(OfName(recent, keys[k])),
                                      Len(OfName(recent, keys[k]))))]]

RecentFormOf(gws, n) == GroupMean(Recent(gws, n))

Joined(l, rp) ==
    [Web_name |-> l.Web_name, Position |-> l.Position, Team |-> l.Team, Cost |-> l.Cost,
     Total_Points |-> l.Total_Points, Total_Minutes |-> l.Total_Minutes,
     Season_xGI |-> l.Season_xGI, Form |-> l.Form, Recent_Points |-> rp]

(* an inner join: left rows without a match are dropped *)
RECURSIVE MergeLeft_inner(_, _)
MergeLeft_inner(left, right) ==
    IF left = << >> THEN << >>
    ELSE LET l == Head(left)
             ms == OfName(right, l.Web_name)
         IN  [k \in 1..Len(ms) |-> Joined(l, ms[k].Recent_Points)]
             \o MergeLeft_inner(Tail(left), right)

(* pd.merge(top50, recent_form, on="Web name", how="left") *)
RECURSIVE MergeLeft(_, _)
MergeLeft(left, right) ==
    IF left = << >> THEN << >>
    ELSE LET l == Head(left)
             ms == OfName(right, l.Web_name)
             rows == IF ms = << >> THEN << Joined(l, NaNR) >>
                     ELSE [k \in 1..Len(ms) |-> Joined(l, ms[k].Recent_Points)]
         IN  rows \o MergeLeft(Tail(left), right)

(* lines 173-179: pm[c] = pm.get(c, pd.Series(np.nan)) gives a column that  *)
(* top50 does not have the value NaN in every row                          *)
SafeColumns ==
    {"Cost", "Total_Points", "Total_Minutes", "Season_xGI", "Form", "Team", "Position"}

SafeFields(r, cols) ==
    [r EXCEPT !.Cost = IF "Cost" \in cols THEN @ ELSE NaN,
              !.Total_Points = IF "Total_Points" \in cols THEN @ ELSE NaN,
              !.Total_Minutes = IF "Total_Minutes" \in cols THEN @ ELSE NaN,
              !.Season_xGI = IF "Season_xGI" \in cols THEN @ ELSE NaN,
              !.Form = IF "Form" \in cols THEN @ ELSE NaN,
              !.Team = IF "Team" \in cols THEN @ ELSE NoTeam,
              !.Position = IF "Position" \in cols THEN @ ELSE NoTeam]

Points_per_Million(r) == safe_div(FromInt(r.Total_Points), FromInt(r.Cost))

xGI_per90(r) ==
    safe_div(FromInt(r.Season_xGI),
             IF r.Total_Minutes # 0 THEN RDiv(FromInt(r.Total_Minutes), R(90, 1)) ELSE NaNR)

compute_base_form_value(r) ==
    LET b1 == IF notnull(r.Recent_Points) THEN RMul(R(6, 10), r.Recent_Points) ELSE Zero
        b2 == IF ~isna(r.Form) THEN RAdd(b1, RMul(R(4, 10), FromInt(r.Form))) ELSE b1
    IN  safe_div(b2, FromInt(r.Cost))

fillna0(x) == IF notnull(x) THEN x ELSE Zero

(* xgi = pm["xGI_per90"].fillna(0), min-max normalised *)
xgi_norm(df, i) ==
    LET xgi == [k \in 1..Len(df) |-> fillna0(xGI_per90(df[k]))]
        mx == RMax(Range(xgi))
        mn == RMin(Range(xgi))
    IN  IF RLt(mn, mx) THEN RDiv(RSub(xgi[i], mn), RSub(mx, mn)) ELSE RMul(xgi[i], Zero)

Teams(tm) == { tm[i].Team : i \in 1..Len(tm) }

TeamRow(tm, t) == tm[CHOOSE i \in 1..Len(tm) : tm[i].Team = t]

norm_team_attack(tm, t) ==
    LET vals == IF tm = << >> THEN {Zero}
                ELSE { tm[i].Attack_Index_Fixture_Adjusted : i \in 1..Len(tm) }
        v == IF t \in Teams(tm) THEN TeamRow(tm, t).Attack_Index_Fixture_Adjusted ELSE NaNR
    IN  IF ~notnull(v) THEN Zero
        ELSE IF RSub(RMax(vals), RMin(vals)) = Zero THEN Zero
        ELSE RDiv(RSub(v, RMin(vals)), RSub(RMax(vals), RMin(vals)))

norm_team_defense(tm, t) ==
    LET vals == IF tm = << >> THEN {Zero}
                ELSE { tm[i].Defense_Index : i \in 1..Len(tm) }
        v == IF t \in Teams(tm) THEN TeamRow(tm, t).Defense_Index ELSE NaNR
    IN  IF ~notnull(v) THEN Zero
        ELSE IF RSub(RMax(vals), RMin(vals)) = Zero THEN Zero
        ELSE RDiv(RSub(v, RMin(vals)), RSub(RMax(vals), RMin(vals)))

compute_tuned_score_raw(r) ==
    IF r.Position \in {"MID", "FWD"}
    THEN RAdd(r.Base_Form_Value,
              RAdd(RMul(R(45, 100), r.xGI_norm), RMul(R(35, 100), r.Team_Attack_Norm)))
    ELSE RAdd(r.Base_Form_Value, RMul(R(50, 100), r.Team_Defence_Norm))

compute_tuned_score(r) ==
    LET base == IF notnull(r.Base_Form_Value) THEN r.Base_Form_Value ELSE Zero
    IN  IF r.Position \in {"MID", "FWD"}
        THEN RAdd(base, RAdd(RMul(R(45, 100), r.xGI_norm), RMul(R(35, 100), r.Team_Attack_Norm)))
        ELSE RAdd(base, RMul(R(50, 100), r.Team_Defence_Norm))

Derived(df, tm, i) ==
    LET r == df[i]
    IN  [Web_name |-> r.Web_name, Position |-> r.Position, Team |-> r.Team,
         Cost |-> r.Cost, Total_Points |-> r.Total_Points,
         Total_Minutes |-> r.Total_Minutes, Season_xGI |-> r.Season_xGI,
         Form |-> r.Form, Recent_Points |-> r.Recent_Points,
         Points_per_Million |-> Points_per_Million(r),
         xGI_per90 |-> xGI_per90(r),
         Base_Form_Value |-> compute_base_form_value(r),
         xGI_norm |-> xgi_norm(df, i),
         Team_Attack_Norm |-> norm_team_attack(tm, r.Team),
         Team_Defence_Norm |-> norm_team_defense(tm, r.Team)]

WithMetrics(df, tm, i) ==
    LET m == Derived(df, tm, i)
    IN  [Web_name |-> m.Web_name, Position |-> m.Position, Team |-> m.Team,
         Cost |-> m.Cost, Total_Points |-> m.Total_Points,
         Total_Minutes |-> m.Total_Minutes, Season_xGI |-> m.Season_xGI,
         Form |-> m.Form, Recent_Points |-> m.Recent_Points,
         Points_per_Million |-> m.Points_per_Million, xGI_per90 |-> m.xGI_per90,
         Base_Form_Value |-> m.Base_Form_Value, xGI_norm |-> m.xGI_norm,
         Team_Attack_Norm |-> m.Team_Attack_Norm,
         Team_Defence_Norm |-> m.Team_Defence_Norm,
         Tuned_Score |-> compute_tuned_score(m)]

(* pm.sort_values(by="Tuned_Score", ascending=False): quicksort, so rows   *)
(* of equal score come out in any order; outcomes as index sequences       *)
RECURSIVE ScoreOrders(_, _)
ScoreOrders(df, I) ==
    IF I = {} THEN { << >> }
    ELSE LET top == { i \in I : \A j \in I : ~RLt(df[i].Tuned_Score, df[j].Tuned_Score) }
         IN  UNION { { <<i>> \o t : t \in ScoreOrders(df, I \ {i}) } : i \in top }

RecentForm ==
    /\ pc = "pm_start"
    /\ recent_form' = RecentFormOf(merged_gws, RECENT_N)
    /\ pc' = "pm_merge"
    /\ UNCHANGED <<top50, merged_gws, team_model, pm>>
    /\ UNCHANGED <<squadVars, tmVars>>

Merge ==
    /\ pc = "pm_merge"
    /\ pm' = MergeLeft(top50, recent_form)
    /\ pc' = "pm_metrics"
    /\ UNCHANGED <<top50, merged_gws, team_model, recent_form>>
    /\ UNCHANGED <<squadVars, tmVars>>

Metrics ==
    /\ pc = "pm_metrics"
    /\ LET safe == [k \in 1..Len(pm) |-> SafeFields(pm[k], top50_columns)]
       IN  pm' = [i \in 1..Len(pm) |-> WithMetrics(safe, team_model, i)]
    /\ pc' = "pm_sort"
    /\ UNCHANGED <<top50, merged_gws, team_model, recent_form>>
    /\ UNCHANGED <<squadVars, tmVars>>

SortAndReturn ==
    /\ pc = "pm_sort"
    /\ \E o \in ScoreOrders(pm, 1..Len(pm)) : pm' = [k \in 1..Len(pm) |-> pm[o[k]]]
    /\ pc' = "pm_done"
    /\ UNCHANGED <<top50, merged_gws, team_model, recent_form>>
    /\ UNCHANGED <<squadVars, tmVars>>

(* Inputs of build_player_model *)

TeamOf(i) == IF i % 2 = 1 THEN "A" ELSE "B"

Top50Rows == [Position : {"DEF", "MID"}, Cost : {NaN, MaxCost}, Form : {NaN} \cup 1..MaxForm]

(* season summaries with distinct entity names: row i is named i *)
Top50OfLen(n) ==
    { [i \in 1..n |-> [Web_name |-> i, Position |-> f[i].Position, Team |-> TeamOf(i),
                       Cost |-> f[i].Cost, Total_Points |-> 3 * i,
                       Total_Minutes |-> 90 * (i - 1), Season_xGI |-> i,
                       Form |-> f[i].Form]] : f \in [1..n -> Top50Rows] }

Top50Tables == UNION { Top50OfLen(n) : n \in 0..MaxPlayers }

GWs == {1, MaxGW - (RECENT_N - 1), MaxGW}

GwRows == [Web_name : 1..(MaxPlayers + 1), GW : GWs, GW_Points : 1..MaxPoints]

GwTables == UNION { [1..n -> GwRows] : n \in 0..MaxRecords }

TeamModels ==
    { << [Team |-> "A", Attack_Index_Fixture_Adjusted |-> R(2, 1), Defense_Index |-> R(1, 2)],
         [Team |-> "B", Attack_Index_Fixture_Adjusted |-> R(1, 1), Defense_Index |-> R(2, 3)] >> }

NoSquad ==
    /\ candidates = << >>
    /\ budget = BUDGET
    /\ formation = SQUAD_RULES
    /\ pos_sorted = << >>
    /\ Locals

PlayerModelInit ==
    /\ top50 \in Top50Tables
    /\ merged_gws \in GwTables
    /\ team_model \in TeamModels
    /\ recent_form = << >>
    /\ pm = << >>
    /\ pc = "pm_start"
    /\ NoSquad
    /\ NoTeamLocals
    /\ top50_columns = SafeColumns

PlayerModelNext ==
    \/ RecentForm
    \/ Merge
    \/ Metrics
    \/ SortAndReturn

SpecPlayerModel == PlayerModelInit /\ [][PlayerModelNext]_vars

(* Inputs that reach every guard of the metric columns: zero and missing   *)
(* cost, minutes and totals, and a period record of zero points            *)

MetricRows ==
    [Position : {"DEF", "MID"}, Cost : {NaN, 0, MaxCost}, Form : {NaN, MaxForm},
     Total_Points : {NaN, 3}, Total_Minutes : {NaN, 0, 90}, Season_xGI : {NaN, 2}]

MetricTablesOfLen(n) ==
    { [i \in 1..n |-> [Web_name |-> i, Position |-> f[i].Position, Team |-> TeamOf(i),
                       Cost |-> f[i].Cost, Total_Points |-> f[i].Total_Points,
                       Total_Minutes |-> f[i].Total_Minutes,
                       Season_xGI |-> f[i].Season_xGI,
                       Form |-> f[i].Form]] : f \in [1..n -> MetricRows] }

MetricGws ==
    { << >> } \cup { << [Web_name |-> 1, GW |-> MaxGW, GW_Points |-> p] >> : p \in 0..MaxPoints }

(* a season summary without its Cost column holds no cost in any row *)
WithoutCost(tables) == { t \in tables : \A i \in 1..Len(t) : isna(t[i].Cost) }

MetricsInit ==
    /\ \/ /\ top50_columns = SafeColumns
          /\ \E n \in 1..MaxPlayers : top50 \in MetricTablesOfLen(n)
       \/ /\ top50_columns = SafeColumns \ {"Cost"}
          /\ \E n \in 1..MaxPlayers : top50 \in WithoutCost(MetricTablesOfLen(n))
    /\ merged_gws \in MetricGws
    /\ team_model \in TeamModels
    /\ recent_form = << >>
    /\ pm = << >>
    /\ pc = "pm_start"
    /\ NoSquad
    /\ NoTeamLocals

SpecMetrics == MetricsInit /\ [][PlayerModelNext]_vars

----------------------------------------------------------------------------
(* The team model: build_team_model of fpl_player_model.py and the script  *)
(* fpl_team_model.py, which computes the same table without the fillna(0)  *)
(* of line 83 and with the recent-opponents fallback only.  Columns that   *)
(* no later step reads (CS, Minutes, the other season totals) are left     *)
(* out.  Team names sort as in TeamNames.                                  *)

PlayerModelPy == "fpl_player_model.py"

TeamModelPy == "fpl_team_model.py"

TeamNames == <<"A", "B", "C">>

TeamsIn(df) == { df[i].Team : i \in 1..Len(df) }

OfTeam(df, t) == SelectSeq(df, LAMBDA r : r.Team = t)

SortedTeams(S) == SelectSeq(TeamNames, LAMBDA t : t \in S)

RECURSIVE SumOf(_, _)
SumOf(df, col) == IF df = << >> THEN 0 ELSE Head(df)[col] + SumOf(Tail(df), col)

MeanOf(df, col) == RDiv(R(SumOf(df, col), 1), R(Len(df), 1))

NUnique(df) == Cardinality({ df[i].GW : i \in 1..Len(df) })

PerMatch(total, matches) == RDiv(total, matches)

(* lines 46-66: one row per team of merged_gws, with the per-match rates *)
TeamStatsRow(df, t) ==
    LET g == OfTeam(df, t)
        Matches == R(NUnique(g), 1)
    IN  [Team |-> t,
         Goals |-> R(SumOf(g, "Goals"), 1),
         Assist |-> R(SumOf(g, "Assist"), 1),
         GC |-> R(SumOf(g, "GC"), 1),
         xG |-> MeanOf(g, "xG"),
         xGC |-> MeanOf(g, "xGC"),
         GW_Points |-> R(SumOf(g, "GW_Points"), 1),
         Matches |-> Matches,
         Goals_per_Match |-> PerMatch(R(SumOf(g, "Goals"), 1), Matches),
         Assists_per_Match |-> PerMatch(R(SumOf(g, "Assist"), 1), Matches),
         GC_per_Match |-> PerMatch(R(SumOf(g, "GC"), 1), Matches),
         Points_per_Match |-> PerMatch(R(SumOf(g, "GW_Points"), 1), Matches)]

TeamStatsOf(df) ==
    LET keys == SortedTeams(TeamsIn(df))
    IN  [k \in 1..Len(keys) |-> TeamStatsRow(df, keys[k])]

(* the row an outer merge gives a team that team_stats does not have *)
NoStatsRow(t) ==
    [Team |-> t, Goals |-> NaNR, Assist |-> NaNR, GC |-> NaNR, xG |-> NaNR,
     xGC |-> NaNR, GW_Points |-> NaNR, Matches |-> NaNR, Goals_per_Match |-> NaNR,
     Assists_per_Match |-> NaNR, GC_per_Match |-> NaNR, Points_per_Match |-> NaNR]

SeasonGoals(df, t) ==
    IF t \in TeamsIn(df) THEN R(SumOf(OfTeam(df, t), "Season_Goals"), 1) ELSE NaNR

WithSeason(r, season_goals) ==
    [Team |-> r.Team, Goals |-> r.Goals, Assist |-> r.Assist, GC |-> r.GC,
     xG |-> r.xG, xGC |-> r.xGC, GW_Points |-> r.GW_Points, Matches |-> r.Matches,
     Goals_per_Match |-> r.Goals_per_Match,
     Assists_per_Match |-> r.Assists_per_Match,
     GC_per_Match |-> r.GC_per_Match,
     Points_per_Match |-> r.Points_per_Match,
     Season_Goals |-> season_goals]

(* pd.merge(team_stats, team_summary, on="Team", how="outer"): the union   *)
(* of the keys, sorted                                                     *)
MergeOuter_left(stats, summary) ==
    [k \in 1..Len(stats) |-> WithSeason(stats[k], SeasonGoals(summary, stats[k].Team))]

MergeOuter(stats, summary) ==
    LET keys == SortedTeams(TeamsIn(stats) \cup TeamsIn(summary))
    IN  [k \in 1..Len(keys) |->
            WithSeason(IF keys[k] \in TeamsIn(stats) THEN TeamRow(stats, keys[k])
                       ELSE NoStatsRow(keys[k]),
                       SeasonGoals(summary, keys[k]))]

(* lines 69-80; the script merges unconditionally *)
SeasonMerged(prog, cols, stats, summary) ==
    IF prog = TeamModelPy \/ {"Team", "Season_Goals"} \subseteq cols
    THEN MergeOuter(stats, summary)
    ELSE stats

One == R(1, 1)

Attack_Index(r) == RAdd(RMul(r.Goals_per_Match, R(6, 10)), RMul(r.xG, R(4, 10)))

Defense_Index_raw(r) ==
    RAdd(RMul(RDiv(One, r.GC_per_Match), R(6, 10)), RMul(RDiv(One, r.xGC), R(4, 10)))

Defense_Index(r) ==
    RAdd(RMul(RDiv(One, RAdd(One, r.GC_per_Match)), R(6, 10)),
         RMul(RDiv(One, RAdd(One, r.xGC)), R(4, 10)))

(* line 83 *)
FillRates(r) ==
    [r EXCEPT !.xG = fillna0(@), !.xGC = fillna0(@),
              !.Goals_per_Match = fillna0(@), !.GC_per_Match = fillna0(@)]

WithIndices(prog, r) ==
    LET f == IF prog = PlayerModelPy THEN FillRates(r) ELSE r
    IN  f @@ [Attack_Index |-> Attack_Index(f), Defense_Index |-> Defense_Index(f)]

(* merged_gws["GW"].max(); NaN on an empty table *)
(* the period index of the first row in place of the maximum *)
max_gw_first(df) == IF df = << >> THEN NaN ELSE df[1].GW

max_gw(df) == IF df = << >> THEN NaN ELSE GWMax(df)

(* 1) rows of a later period than the latest one, per team *)
FutureRows(df) == SelectSeq(df, LAMBDA r : ~isna(max_gw(df)) /\ r.GW > max_gw(df))

OpponentsOf(g) == [k \in 1..Len(g) |-> g[k].Opponent_Team]

FutureMap(df) ==
    [t \in TeamsIn(FutureRows(df)) |-> OpponentsOf(OfTeam(FutureRows(df), t))]

(* 2) dropna(subset=["Next Opponent"]).drop_duplicates(subset=["Team"]) *)
NextRows(df) == SelectSeq(df, LAMBDA r : r.Next_Opponent # NoTeam)

NextMap(df) ==
    [t \in TeamsIn(NextRows(df)) |-> << Head(OfTeam(NextRows(df), t)).Next_Opponent >>]

(* 3) the rows of the last three periods; per team the opponents of the    *)
(* first three rows after sort_values("GW", ascending=False), a quicksort: *)
(* rows of one period come in any order                                    *)
RecentRows(df) ==
    SelectSeq(df, LAMBDA r : ~isna(max_gw(df)) /\ r.GW >= max_gw(df) - 2)

RECURSIVE GwOrders(_, _)
GwOrders(g, I) ==
    IF I = {} THEN { << >> }
    ELSE LET top == { i \in I : \A j \in I : g[i].GW >= g[j].GW }
         IN  UNION { { <<g[i]>> \o t : t \in GwOrders(g, I \ {i}) } : i \in top }

RecentOpponents(g) == { OpponentsOf(head(o, 3)) : o \in GwOrders(g, 1..Len(g)) }

FallbackMaps(df) ==
    LET T == TeamsIn(RecentRows(df))
        lists(t) == RecentOpponents(OfTeam(RecentRows(df), t))
    IN  { m \in [T -> UNION { lists(t) : t \in T }] : \A t \in T : m[t] \in lists(t) }

(* a resolution in which the fallback fills in the teams that the next     *)
(* opponent column left out                                                *)
UpcomingMaps_merge(prog, df) ==
    IF prog = TeamModelPy
    THEN IF ~isna(max_gw(df)) /\ max_gw(df) - 2 > 0 THEN FallbackMaps(df) ELSE { << >> }
    ELSE { NextMap(df) @@ f : f \in FallbackMaps(df) }

(* lines 92-113, and lines 97-108 of the script: the maps the resolution   *)
(* can end with                                                            *)
UpcomingMaps(prog, df) ==
    IF prog = TeamModelPy
    THEN IF ~isna(max_gw(df)) /\ max_gw(df) - 2 > 0 THEN FallbackMaps(df) ELSE { << >> }
    ELSE IF DOMAIN FutureMap(df) # {} THEN { FutureMap(df) }
    ELSE IF DOMAIN NextMap(df) # {} THEN { NextMap(df) }
    ELSE IF ~isna(max_gw(df)) THEN FallbackMaps(df)
    ELSE { << >> }

RECURSIVE RSum(_)
RSum(xs) == IF xs = << >> THEN Zero ELSE RAdd(Head(xs), RSum(Tail(xs)))

(* opp_def_map.get(o) for the opponents the map knows; the script also     *)
(* drops NaN values                                                        *)
OppVals(prog, tm, opps) ==
    LET known == SelectSeq(opps, LAMBDA o : o \in Teams(tm))
        vals == [k \in 1..Len(known) |-> TeamRow(tm, known[k]).GC_per_Match]
    IN  IF prog = TeamModelPy THEN SelectSeq(vals, notnull) ELSE vals

Opp_GC_per_Match_Upcoming(prog, tm, um, t) ==
    IF t \in DOMAIN um /\ OppVals(prog, tm, um[t]) # << >>
    THEN RDiv(RSum(OppVals(prog, tm, um[t])), R(Len(OppVals(prog, tm, um[t])), 1))
    ELSE NaNR

Neutral == R(3, 1)

(* lines 125-133 *)
Fixture_Difficulty_Score_nocollapse(col, k) ==
    IF Defined(Range(col)) = {} THEN NaNR
    ELSE RAdd(One, RDiv(RMul(R(4, 1), RSub(col[k], RMin(Range(col)))),
                        RSub(RMax(Range(col)), RMin(Range(col)))))

Fixture_Difficulty_Score(col, k) ==
    IF Defined(Range(col)) = {} THEN NaNR
    ELSE LET mn == RMin(Range(col))
             mx == RMax(Range(col))
         IN  IF RLt(Zero, RSub(mx, mn))
             THEN RAdd(One, RDiv(RMul(R(4, 1), RSub(col[k], mn)), RSub(mx, mn)))
             ELSE Neutral

Boost_nofill(score) == RAdd(One, RMul(RSub(score, Neutral), R(5, 100)))

Boost(score) ==
    RAdd(One, RMul(RSub(IF notnull(score) THEN score ELSE Neutral, Neutral), R(5, 100)))

(* line 137 *)
Attack_Index_Fixture_Adjusted(attack, score) == RMul(attack, Boost(score))

WithDifficulty(prog, tm, um) ==
    LET col == [k \in 1..Len(tm) |-> Opp_GC_per_Match_Upcoming(prog, tm, um, tm[k].Team)]
    IN  [k \in 1..Len(tm) |->
            tm[k] @@ [Opp_GC_per_Match_Upcoming |-> col[k],
                      Fixture_Difficulty_Score |-> Fixture_Difficulty_Score(col, k),
                      Attack_Index_Fixture_Adjusted |->
                          IF prog = TeamModelPy /\ Defined(Range(col)) = {}
                          THEN tm[k].Attack_Index
                          ELSE Attack_Index_Fixture_Adjusted(tm[k].Attack_Index,
                                   Fixture_Difficulty_Score(col, k))]]

TeamStats ==
    /\ pc = "tm_start"
    /\ team_stats' = TeamStatsOf(merged_gws)
    /\ pc' = "tm_merge"
    /\ UNCHANGED <<top50, merged_gws, team_model, recent_form, pm>>
    /\ UNCHANGED <<script, top50_columns, upcoming_map>>
    /\ UNCHANGED squadVars

MergeSeason ==
    /\ pc = "tm_merge"
    /\ LET merged == SeasonMerged(script, top50_columns, team_stats, top50)
       IN  team_model' = [k \in 1..Len(merged) |-> WithIndices(script, merged[k])]
    /\ pc' = "tm_upcoming"
    /\ UNCHANGED <<top50, merged_gws, recent_form, pm>>
    /\ UNCHANGED <<script, top50_columns, team_stats, upcoming_map>>
    /\ UNCHANGED squadVars

Upcoming ==
    /\ pc = "tm_upcoming"
    /\ upcoming_map' \in UpcomingMaps(script, merged_gws)
    /\ pc' = "tm_difficulty"
    /\ UNCHANGED pmVars
    /\ UNCHANGED <<script, top50_columns, team_stats>>
    /\ UNCHANGED squadVars

Difficulty ==
    /\ pc = "tm_difficulty"
    /\ team_model' = WithDifficulty(script, team_model, upcoming_map)
    /\ pc' = "tm_done"
    /\ UNCHANGED <<top50, merged_gws, recent_form, pm>>
    /\ UNCHANGED tmVars
    /\ UNCHANGED squadVars

(* Inputs of the team model: period records of two teams and a season      *)
(* summary that also knows a third; every goal is assisted and expected    *)

TeamGwRows ==
    [Team : {"A", "B"}, GW : {1, MaxGW}, Goals : 1..MaxGoals, GC : 0..MaxGoals,
     Opponent_Team : {"A", "B", NoTeam}, Next_Opponent : {NoTeam, "B"}]

TeamGwRow(f) ==
    [Team |-> f.Team, GW |-> f.GW, Goals |-> f.Goals, Assist |-> f.Goals,
     GC |-> f.GC, xG |-> f.Goals, xGC |-> f.GC, GW_Points |-> 2,
     Opponent_Team |-> f.Opponent_Team, Next_Opponent |-> f.Next_Opponent]

TeamGwTablesOfLen(n) == { [i \in 1..n |-> TeamGwRow(f[i])] : f \in [1..n -> TeamGwRows] }

(* one record per team for three teams in the latest period, so that three *)
(* different averages can occur                                            *)
LeagueRows == [GC : 0..(MaxGoals + 1), Opponent_Team : {"A", "B", "C", NoTeam}]

LeagueRow(t, f) ==
    TeamGwRow([Team |-> t, GW |-> MaxGW, Goals |-> 1, GC |-> f.GC,
               Opponent_Team |-> f.Opponent_Team, Next_Opponent |-> NoTeam])

LeagueTables ==
    { << LeagueRow("A", f[1]), LeagueRow("B", f[2]), LeagueRow("C", f[3]) >> :
        f \in [1..3 -> LeagueRows] }

SeasonRow(t) == [Team |-> t, Season_Goals |-> 1]

SeasonTables ==
    { << >>, << SeasonRow("C") >>, << SeasonRow("A"), SeasonRow("C"), SeasonRow("C") >> }

(* the script reads Season_Goals unconditionally, build_team_model tests   *)
(* for it                                                                  *)
ColumnSets(prog) ==
    IF prog = TeamModelPy THEN { {"Team", "Season_Goals"} }
    ELSE { {"Team", "Season_Goals"}, {"Team"} }

TeamModelInit ==
    /\ script \in {PlayerModelPy, TeamModelPy}
    /\ top50_columns \in ColumnSets(script)
    /\ top50 \in SeasonTables
    /\ \/ \E n \in 0..MaxRows : merged_gws \in TeamGwTablesOfLen(n)
       \/ merged_gws \in LeagueTables
    /\ team_stats = << >>
    /\ team_model = << >>
    /\ upcoming_map = << >>
    /\ recent_form = << >>
    /\ pm = << >>
    /\ pc = "tm_start"
    /\ NoSquad

TeamModelNext ==
    \/ TeamStats
    \/ MergeSeason
    \/ Upcoming
    \/ Difficulty

SpecTeamModel == TeamModelInit /\ [][TeamModelNext]_vars

----------------------------------------------------------------------------
(* Properties of build_player_model *)

InWindow(name) == Len(OfName(Recent(merged_gws, RECENT_N), name))

OutOfWindow(name) == Len(OfName(merged_gws, name)) - InWindow(name)

(* C10: build_player_model returns exactly one row per row of the season   *)
(* summary: every entity of top50 is in the result once, and the result    *)
(* has no other row.                                                       *)
C10_OneRowPerEntity ==
    pc = "pm_done" =>
        /\ Len(pm) = Len(top50)
        /\ \A i \in 1..Len(top50) :
              Cardinality({ k \in 1..Len(pm) : pm[k].Web_name = top50[i].Web_name }) = 1

C10_Witness ==
    /\ pc = "pm_done"
    /\ Len(top50) = 2
    /\ InWindow(1) = 2
    /\ OutOfWindow(1) = 1
    /\ InWindow(2) = 0
    /\ \E k \in 1..Len(pm) : ~notnull(pm[k].Base_Form_Value)

InputIndex(name) == CHOOSE i \in 1..Len(top50) : top50[i].Web_name = name

NonIncreasing(df) ==
    \A k \in 1..Len(df) : \A l \in 1..Len(df) :
        k < l => ~RLt(df[k].Tuned_Score, df[l].Tuned_Score)

TiesKeepInputOrder(df) ==
    \A k \in 1..Len(df) : \A l \in 1..Len(df) :
        (k < l /\ df[k].Tuned_Score = df[l].Tuned_Score)
            => InputIndex(df[k].Web_name) < InputIndex(df[l].Web_name)

(* C11: the rows build_player_model returns are in non-increasing order of *)
(* Tuned Score, and rows of equal Tuned Score keep the order they had in   *)
(* the season summary (a stable sort).                                     *)
C11_SortedStable ==
    pc = "pm_done" => NonIncreasing(pm) /\ TiesKeepInputOrder(pm)

HasMetrics == pc \in {"pm_sort", "pm_done"}

(* C12: Points-per-cost and xGI-per-90 are undefined (not zero, not        *)
(* infinite) whenever their denominator is zero or an operand is           *)
(* undefined: zero or missing minutes give an undefined xGI_per90, zero or *)
(* missing cost an undefined Points_per_Million.                           *)
C12_GuardedRatios ==
    HasMetrics =>
        \A k \in 1..Len(pm) :
            /\ (isna(pm[k].Cost) \/ pm[k].Cost = 0 \/ isna(pm[k].Total_Points))
                  => pm[k].Points_per_Million = NaNR
            /\ (isna(pm[k].Total_Minutes) \/ pm[k].Total_Minutes = 0
                    \/ isna(pm[k].Season_xGI))
                  => pm[k].xGI_per90 = NaNR

C12_Witness ==
    /\ pc = "pm_done"
    /\ \E k \in 1..Len(pm) :
          /\ pm[k].Cost = 0
          /\ ~isna(pm[k].Total_Points)
          /\ pm[k].Total_Minutes = 0
          /\ ~isna(pm[k].Season_xGI)
    /\ \E k \in 1..Len(pm) :
          /\ notnull(pm[k].Points_per_Million)
          /\ notnull(pm[k].xGI_per90)

CostUsable(r) == ~isna(r.Cost) /\ r.Cost # 0

NoFormData(r) == ~notnull(r.Recent_Points) /\ isna(r.Form)

WeightedForm(r) ==
    IF notnull(r.Recent_Points) /\ ~isna(r.Form)
    THEN RAdd(RMul(R(6, 10), r.Recent_Points), RMul(R(4, 10), FromInt(r.Form)))
    ELSE IF notnull(r.Recent_Points) THEN RMul(R(6, 10), r.Recent_Points)
    ELSE RMul(R(4, 10), FromInt(r.Form))

(* C13: Base Form Value is (0.6 x recent mean points + 0.4 x form, leaving *)
(* out an undefined term) divided by cost; it is undefined when cost is    *)
(* undefined or zero, and it is undefined, not a defined zero, when        *)
(* neither the recent mean nor the form is defined.                        *)
C13_BaseFormValue ==
    HasMetrics =>
        \A k \in 1..Len(pm) :
            pm[k].Base_Form_Value =
                IF ~CostUsable(pm[k]) \/ NoFormData(pm[k]) THEN NaNR
                ELSE RDiv(WeightedForm(pm[k]), FromInt(pm[k].Cost))

Attacking(r) == r.Position \in {"MID", "FWD"}

(* C14: Tuned Score is always defined; it is Base Form Value + 0.45 x      *)
(* normalised xGI-per-90 + 0.35 x normalised team attack for MID and FWD   *)
(* rows and Base Form Value + 0.50 x normalised team defence for the       *)
(* others, an undefined Base Form Value counting as 0.                     *)
C14_TunedScore ==
    HasMetrics =>
        \A k \in 1..Len(pm) :
            LET r == pm[k]
                b == fillna0(r.Base_Form_Value)
            IN  /\ notnull(r.Tuned_Score)
                /\ ~isinf(r.Tuned_Score)
                /\ Attacking(r) =>
                      r.Tuned_Score = RAdd(RAdd(b, RMul(R(45, 100), r.xGI_norm)),
                                           RMul(R(35, 100), r.Team_Attack_Norm))
                /\ ~Attacking(r) =>
                      r.Tuned_Score = RAdd(b, RMul(R(50, 100), r.Team_Defence_Norm))

C14_Witness ==
    /\ pc = "pm_done"
    /\ \E k \in 1..Len(pm) :
          /\ Attacking(pm[k])
          /\ ~notnull(pm[k].Base_Form_Value)
          /\ pm[k].xGI_norm = R(1, 1)
          /\ RLt(Zero, pm[k].Tuned_Score)
    /\ \E k \in 1..Len(pm) :
          /\ ~Attacking(pm[k])
          /\ RLt(Zero, pm[k].Base_Form_Value)
          /\ RLt(Zero, pm[k].Team_Defence_Norm)

----------------------------------------------------------------------------
(* Properties of the team model *)

HasSeasonColumns == script = TeamModelPy \/ {"Team", "Season_Goals"} \subseteq top50_columns

OneRowEach(tm, S) ==
    /\ Teams(tm) = S
    /\ Len(tm) = Cardinality(S)

SeasonOnlyTeams == TeamsIn(top50) \ TeamsIn(merged_gws)

Rates(r) ==
    { r.Goals_per_Match, r.Assists_per_Match, r.GC_per_Match, r.Points_per_Match }

(* C16: a team with no period record, present only in the season summary,  *)
(* is in the team model with every per-match rate (goals, assists, goals   *)
(* conceded, points) equal to 0, not undefined.                            *)
C16_ZeroRates ==
    pc = "tm_done" =>
        \A t \in SeasonOnlyTeams :
            /\ t \in Teams(team_model)
            /\ Rates(TeamRow(team_model, t)) = {Zero}

HasIndices == pc \in {"tm_upcoming", "tm_difficulty", "tm_done"}

Observed(r) == r.Team \in TeamsIn(merged_gws)

(* C17: for every team with at least one observed period (inputs are not   *)
(* negative) Attack Index = 0.6 x goals per match + 0.4 x mean expected    *)
(* goals is at least 0, and Defense Index = 0.6 / (1 + goals conceded per  *)
(* match) + 0.4 / (1 + mean expected goals conceded) is greater than 0 and *)
(* at most 1.                                                              *)
C17_IndexRanges ==
    HasIndices =>
        \A k \in 1..Len(team_model) :
            LET r == team_model[k]
            IN  Observed(r) =>
                    /\ r.Attack_Index = RAdd(RMul(R(6, 10), r.Goals_per_Match),
                                             RMul(R(4, 10), r.xG))
                    /\ RLt(Zero, r.Attack_Index) \/ r.Attack_Index = Zero
                    /\ r.Defense_Index =
                          RAdd(RDiv(R(6, 10), RAdd(One, r.GC_per_Match)),
                               RDiv(R(4, 10), RAdd(One, r.xGC)))
                    /\ RLt(Zero, r.Defense_Index)
                    /\ RLt(r.Defense_Index, One) \/ r.Defense_Index = One

C17_Witness ==
    /\ pc = "tm_done"
    /\ \E k \in 1..Len(team_model) :
          /\ Observed(team_model[k])
          /\ team_model[k].Defense_Index = One
          /\ RLt(Zero, team_model[k].Attack_Index)
    /\ \E k \in 1..Len(team_model) :
          /\ Observed(team_model[k])
          /\ RLt(team_model[k].Defense_Index, One)
    /\ \E k \in 1..Len(team_model) : ~Observed(team_model[k])

RLe(a, b) == RLt(a, b) \/ (notnull(a) /\ a = b)

Averages == { team_model[k].Opp_GC_per_Match_Upcoming : k \in 1..Len(team_model) }

Smallest(x) == notnull(x) /\ \A y \in Averages : ~RLt(y, x)

Largest(x) == notnull(x) /\ \A y \in Averages : ~RLt(x, y)

(* C18: every defined Fixture Difficulty Score lies in [1, 5]; the team    *)
(* with the smallest average opponent concession gets 1 and the one with   *)
(* the largest gets 5; when all defined averages are equal, every team     *)
(* with a defined average gets exactly 3.0.                                *)
C18_ScoreRange ==
    pc = "tm_done" =>
        \A k \in 1..Len(team_model) :
            LET r == team_model[k]
                x == r.Opp_GC_per_Match_Upcoming
                collapse == Cardinality(Defined(Averages)) = 1
            IN  /\ notnull(r.Fixture_Difficulty_Score) =>
                      /\ RLe(One, r.Fixture_Difficulty_Score)
                      /\ RLe(r.Fixture_Difficulty_Score, R(5, 1))
                /\ (Smallest(x) /\ ~collapse) => r.Fixture_Difficulty_Score = One
                /\ (Largest(x) /\ ~collapse) => r.Fixture_Difficulty_Score = R(5, 1)
                /\ (notnull(x) /\ collapse) => r.Fixture_Difficulty_Score = Neutral

C18_Witness ==
    /\ pc = "tm_done"
    /\ Len(team_model) = 3
    /\ \E k \in 1..Len(team_model) : team_model[k].Fixture_Difficulty_Score = One
    /\ \E k \in 1..Len(team_model) : team_model[k].Fixture_Difficulty_Score = R(5, 1)
    /\ \E k \in 1..Len(team_model) : team_model[k].Fixture_Difficulty_Score = Neutral

Unresolved(t) ==
    \/ t \notin DOMAIN upcoming_map
    \/ OppVals(script, team_model, upcoming_map[t]) = << >>

(* C19: a team for which no upcoming opponent can be resolved (it has no   *)
(* opponent list, or none of its opponents has a known goals-conceded      *)
(* rate) has an undefined Fixture Difficulty Score, also when the averages *)
(* of the other teams collapse to a single value.                          *)
C19_UnresolvedUndefined ==
    pc = "tm_done" =>
        \A k \in 1..Len(team_model) :
            Unresolved(team_model[k].Team)
                => ~notnull(team_model[k].Fixture_Difficulty_Score)

ScoreOr3(r) ==
    IF notnull(r.Fixture_Difficulty_Score) THEN r.Fixture_Difficulty_Score ELSE Neutral

(* C20: for every team Fixture-Adjusted Attack Index = Attack Index x      *)
(* (1 + (Fixture Difficulty Score - 3.0) x 0.05), an undefined score taken *)
(* as 3.0: it equals the Attack Index when the score is undefined or 3.0,  *)
(* is 10% above it at score 5 and 10% below it at score 1, and always lies *)
(* between 0.9 and 1.1 times the Attack Index.                             *)
C20_AdjustedAttack ==
    pc = "tm_done" =>
        \A k \in 1..Len(team_model) :
            LET r == team_model[k]
                a == r.Attack_Index
                adj == r.Attack_Index_Fixture_Adjusted
            IN  /\ adj = RMul(a, RAdd(One, RMul(RSub(ScoreOr3(r), Neutral), R(5, 100))))
                /\ ScoreOr3(r) = Neutral => adj = a
                /\ ScoreOr3(r) = R(5, 1) => adj = RMul(a, R(11, 10))
                /\ ScoreOr3(r) = One => adj = RMul(a, R(9, 10))
                /\ notnull(a) => /\ RLe(RMul(a, R(9, 10)), adj)
                                 /\ RLe(adj, RMul(a, R(11, 10)))

C20_Witness ==
    /\ pc = "tm_done"
    /\ \A k \in 1..Len(team_model) : RLt(Zero, team_model[k].Attack_Index)
    /\ \E k \in 1..Len(team_model) : team_model[k].Fixture_Difficulty_Score = One
    /\ \E k \in 1..Len(team_model) : team_model[k].Fixture_Difficulty_Score = R(5, 1)
    /\ \E k \in 1..Len(team_model) :
          /\ ~notnull(team_model[k].Fixture_Difficulty_Score)
          /\ team_model[k].Attack_Index_Fixture_Adjusted = team_model[k].Attack_Index

----------------------------------------------------------------------------
(* Properties of the input checks *)

MissingColumns == SafeColumns \ top50_columns

(* C21: when a required column is absent from the season summary, the      *)
(* player model stage fails with a validation error before it computes     *)
(* anything: it never goes on to compute the metric columns from           *)
(* substituted undefined values.                                           *)
C21_FailsFast ==
    MissingColumns # {} => ~HasMetrics

----------------------------------------------------------------------------
(* The repair loop on a long pool: one GKP place and LongPool goalkeepers, *)
(* each cheaper and lower scored than the one before, so that every        *)
(* attempt finds a substitute and the attempt limit is reached.            *)

LongPool == 202

LongCandidates ==
    [i \in 1..LongPool |->
        [Web_name |-> i, Position |-> "GKP",
         Cost |-> LongPool + 1 - i, Tuned_Score |-> LongPool + 1 - i]]

(* the scores are distinct and already descending: the sort of the pool    *)
(* has one outcome, the input order                                        *)
LongSorted(df) == [p \in Positions |-> FilterPosition(df, p)]

(* the long pool, and its first two rows alone *)
LongPools == { LongCandidates, head(LongCandidates, 2) }

LongFormations == { << >>, <<[pos |-> "GKP", count |-> 1]>> }

LongBudgets == {1, BUDGET, LongPool}

LongInit ==
    /\ candidates \in LongPools
    /\ budget \in LongBudgets
    /\ formation \in LongFormations
    /\ pos_sorted = LongSorted(candidates)
    /\ pc = "idle"
    /\ Locals
    /\ NoPlayerModel
    /\ NoTeamModel

(* the interpreter runs the loop body, the loop exit and the final check   *)
(* whenever they are the next statement                                    *)
SpecLong ==
    /\ LongInit
    /\ [][Next]_vars
    /\ WF_vars(RepairAttempt)
    /\ WF_vars(RepairStop)
    /\ WF_vars(FinalCheck)

Substitutable == SwapRows(RepairOrder(squad_df), extras) # {}

LoopEnds ==
    \/ total_cost <= budget
    \/ ~Substitutable
    \/ attempts >= MaxAttempts

(* C22: the repair loop always terminates and makes at most 200            *)
(* substitutions: every attempt is a substitution, a substitution is made  *)
(* only while the cost is over budget, a substitute exists and fewer than  *)
(* 200 were made, the loop is left as soon as one of the three fails, and  *)
(* a started loop always reaches the return.                               *)
C22_Terminates ==
    /\ [](attempts = Len(subs) /\ Len(subs) <= MaxAttempts)
    /\ [][pc = "loop" /\ pc' = "loop" => ~LoopEnds /\ Len(subs') = Len(subs) + 1]_vars
    /\ [][pc = "loop" /\ LoopEnds => pc' # "loop"]_vars
    /\ (pc = "loop") ~> (pc = "returned")

(* the limit of 200 stops a loop that could still substitute *)
C22_Witness ==
    /\ pc = "returned"
    /\ Len(subs) = MaxAttempts
    /\ total_cost > budget
    /\ Substitutable

----------------------------------------------------------------------------
(* Properties of one repair attempt *)

Substituted == pc = "loop" /\ Len(subs') = Len(subs) + 1

(* the candidates that may replace member r of squad sq: in the pool of    *)
(* its position class, not selected, strictly cheaper                      *)
Substitutes(sq, ex, r) ==
    { c \in Rows(ex[r.Position]) :
        /\ c.Web_name \notin Names(sq)
        /\ ~isna(c.Cost)
        /\ c.Cost < r.Cost }

MemberOut == Rows(squad_df) \ Rows(squad_df')

MemberIn == Rows(squad_df') \ Rows(squad_df)

----------------------------------------------------------------------------
(* C24 *)

CountOf(df, p) == Len(FilterPosition(df, p))

(* the member names of the squad before substitution k + 1, from the       *)
(* names now and the substitutions made since                              *)
RECURSIVE CompositionAt(_)
CompositionAt(k) ==
    IF k >= Len(subs) THEN Names(squad_df)
    ELSE (CompositionAt(k + 1) \ {subs[k + 1][2]}) \cup {subs[k + 1][1]}

(* C24: every substitution strictly decreases the total cost of the squad  *)
(* and keeps the number of members of each position class, and no          *)
(* composition of the squad is visited twice.                              *)
C24_StrictDecrease ==
    /\ [][Substituted =>
            /\ total_cost = SumCost(squad_df)
            /\ total_cost' = SumCost(squad_df')
            /\ total_cost' < total_cost
            /\ \A p \in Positions : CountOf(squad_df', p) = CountOf(squad_df, p)]_vars
    /\ [](pc \in {"loop", "final", "returned"} =>
            \A j, k \in 0..Len(subs) : j # k => CompositionAt(j) # CompositionAt(k))

(* two substitutions were made *)
C24_Witness ==
    /\ pc = "returned"
    /\ Len(subs) = 2
    /\ CompositionAt(0) # CompositionAt(2)

----------------------------------------------------------------------------
(* C25 *)

(* the cost a row has once it is selected: a missing cost counts as 999.0  *)
SelectedCost(r) == IF isna(r.Cost) THEN MissingCostSentinel ELSE r.Cost

RECURSIVE SelectionCost(_)
SelectionCost(S) ==
    IF S = {} THEN 0
    ELSE LET r == CHOOSE x \in S : TRUE
         IN  SelectedCost(r) + SelectionCost(S \ {r})

(* the selections from the pool with the squad's number of members in each *)
(* position class                                                          *)
Selections ==
    { S \in SUBSET Rows(candidates) :
        \A p \in Positions \cup PoolPositions :
            Cardinality({ r \in S : r.Position = p }) = CountOf(squad_df, p) }

EarlyStop == pc = "final"

(* C25: when a pass finds no substitutable member, no unselected candidate *)
(* is strictly cheaper than a squad member of its position class, the      *)
(* squad's total cost is the least of all selections with the same         *)
(* per-position counts, and the infeasible result that follows means that  *)
(* no such selection fits the budget.                                      *)
C25_EarlyStopIsMinimal ==
    EarlyStop =>
        /\ \A m \in Rows(squad_df) : Substitutes(squad_df, extras, m) = {}
        /\ \A S \in Selections : SelectionCost(S) >= SumCost(squad_df)
        /\ SumCost(squad_df) > budget
        /\ \A S \in Selections : SelectionCost(S) > budget

(* an early stop after a substitution, with other selections to compare *)
C25_Witness ==
    /\ EarlyStop
    /\ Len(subs) >= 1
    /\ Cardinality(Selections) >= 3

----------------------------------------------------------------------------
(* C26 *)

Periods(gws) == { gws[i].GW : i \in 1..Len(gws) }

(* the n largest distinct period indices of the table *)
LargestPeriods(gws, n) ==
    { g \in Periods(gws) : Cardinality({ h \in Periods(gws) : h > g }) < n }

InLargestPeriods(gws, n) == SelectSeq(gws, LAMBDA r : r.GW \in LargestPeriods(gws, n))

(* C26: the recent form is taken over exactly the records whose period     *)
(* index is among the N = 5 largest distinct period indices of the table,  *)
(* consecutive or not; with fewer than N distinct periods, over all        *)
(* records.                                                                *)
C26_LargestPeriods ==
    pc \in {"pm_merge", "pm_metrics", "pm_sort", "pm_done"} =>
        recent_form = GroupMean(InLargestPeriods(merged_gws, RECENT_N))

----------------------------------------------------------------------------
(* Properties of the opponent resolution of build_team_model *)

Resolved == script = PlayerModelPy /\ pc \in {"tm_difficulty", "tm_done"}

HasNext(r) == r.Next_Opponent # NoTeam

AnyNext == \E i \in 1..Len(merged_gws) : HasNext(merged_gws[i])

FirstNext(t) ==
    LET i == Min({ k \in 1..Len(merged_gws) :
                      merged_gws[k].Team = t /\ HasNext(merged_gws[k]) })
    IN  merged_gws[i].Next_Opponent

RecentOpponentsOf(t) ==
    { merged_gws[k].Opponent_Team :
        k \in { j \in 1..Len(merged_gws) :
                  /\ merged_gws[j].Team = t
                  /\ merged_gws[j].GW >= max_gw(merged_gws) - 2 } }

(* C27: the opponents come from the first source that has data for any     *)
(* team: future rows, else the next-opponent field, else the recent        *)
(* opponents.  When a row names a next opponent, a team's list is its      *)
(* first next opponent and a team without one gets no list, whatever its   *)
(* recent opponents; only when no row names one do the lists hold recent   *)
(* opponents.                                                              *)
C27_FirstSourceOnly ==
    Resolved =>
        /\ FutureRows(merged_gws) # << >> => upcoming_map = FutureMap(merged_gws)
        /\ FutureRows(merged_gws) = << >> /\ AnyNext =>
              /\ DOMAIN upcoming_map =
                    { t \in TeamsIn(merged_gws) :
                        \E i \in 1..Len(merged_gws) :
                            merged_gws[i].Team = t /\ HasNext(merged_gws[i]) }
              /\ \A t \in DOMAIN upcoming_map : upcoming_map[t] = << FirstNext(t) >>
        /\ FutureRows(merged_gws) = << >> /\ ~AnyNext =>
              /\ DOMAIN upcoming_map \subseteq TeamsIn(merged_gws)
              /\ \A t \in DOMAIN upcoming_map :
                    /\ upcoming_map[t] # << >>
                    /\ \A k \in 1..Len(upcoming_map[t]) :
                          upcoming_map[t][k] \in RecentOpponentsOf(t)

(* one team names a next opponent; another names none, has a recent        *)
(* opponent, and gets no list                                              *)
C27_Witness ==
    /\ Resolved
    /\ AnyNext
    /\ \E t \in TeamsIn(merged_gws) :
          /\ t \notin DOMAIN upcoming_map
          /\ RecentOpponentsOf(t) \ {NoTeam} # {}

----------------------------------------------------------------------------
(* C28 *)

FallbackUsed ==
    /\ pc \in {"tm_difficulty", "tm_done"}
    /\ merged_gws # << >>
    /\ IF script = TeamModelPy THEN max_gw(merged_gws) - 2 > 0 ELSE ~AnyNext

(* the opponents team t faced in period g *)
FacedIn(t, g) ==
    { merged_gws[k].Opponent_Team :
        k \in { j \in 1..Len(merged_gws) :
                  merged_gws[j].Team = t /\ merged_gws[j].GW = g } }

(* the most recent periods of team t, latest first, three at most *)
LastPeriods(t) ==
    LET up == SortedKeys(LargestPeriods(OfTeam(merged_gws, t), 3))
    IN  [k \in 1..Len(up) |-> up[Len(up) + 1 - k]]

(* C28: under the fallback proxy the opponent list of a team holds one     *)
(* opponent for each of its 3 most recent periods (fewer when it has       *)
(* fewer periods), however many records the team has in a period.          *)
C28_OnePerPeriod ==
    FallbackUsed =>
        \A t \in TeamsIn(merged_gws) :
            /\ t \in DOMAIN upcoming_map
            /\ Len(upcoming_map[t]) = Len(LastPeriods(t))
            /\ \A k \in 1..Len(upcoming_map[t]) :
                  upcoming_map[t][k] \in FacedIn(t, LastPeriods(t)[k])

----------------------------------------------------------------------------
(* C29 *)

(* C29: in build_team_model the future-rows source never has data: no      *)
(* record has a period index above the maximum of its own table, so the    *)
(* opponent map is the one of the next-opponent field or one of the        *)
(* recent-opponents fallback.                                              *)
C29_NoFutureRows ==
    Resolved =>
        /\ \A i \in 1..Len(merged_gws) : ~(merged_gws[i].GW > max_gw(merged_gws))
        /\ FutureRows(merged_gws) = << >>
        /\ DOMAIN FutureMap(merged_gws) = {}
        /\ upcoming_map \in {NextMap(merged_gws)} \cup FallbackMaps(merged_gws)

(* records of an earlier and of a later period, and a resolved opponent *)
C29_Witness ==
    /\ Resolved
    /\ \E i, j \in 1..Len(merged_gws) : merged_gws[i].GW < merged_gws[j].GW
    /\ DOMAIN upcoming_map # {}

====
